---- MODULE Spec2Model ----
(***************************************************************************)
(* A model of howdy/src/recorders/libcamera_reader.py: the class           *)
(* libcamera_reader, a synchronous "read a frame" adapter over libcamera.  *)
(*                                                                         *)
(* The reader is one sequential caller thread.  The camera (libcamera's    *)
(* own threads and the hardware) runs beside it: it completes queued       *)
(* requests while the reader is anywhere in record() or read().  record()  *)
(* and read() are therefore modelled statement group by statement group    *)
(* (pc), probe(), set(), get() and release() as one step each.             *)
(*                                                                         *)
(* Python values are encoded so that every variable keeps one TLA+ type:   *)
(*   None            <<>>   (exceptions, pixel formats, return values)     *)
(*   an exception    <<type, line of the raise/assert/failing expression>> *)
(*   a PixelFormat   <<fourcc, modifier>>                                  *)
(*   self.camera     <<"unset">> | <<"None">> | <<"Camera", id>>           *)
(*   self.started    "unset" (attribute never assigned) | "True"           *)
(*   a buffer / a request    a positive integer, 0 for None                *)
(*                                                                         *)
(* The module's table pixelformat_2_csc (lines 15-17) names                *)
(* COLOR_YUV2BGR_NV12, which the module does not import; the model takes   *)
(* the table as the code writes it, one key, the fourcc of NV12.           *)
(***************************************************************************)
EXTENDS Naturals, Integers, Sequences, FiniteSets, TLC

\* ------------------------------------------------------------------ bounds
MaxFormats  == 2   \* longest pixel-format list a driver advertises
MaxBufs     == 2   \* most buffers one allocate() call returns
MaxRecords  == 2   \* record() calls explored
MaxTimeouts == 1   \* select() timeouts explored per read()

\* ------------------------------------------------------- program constants
CAP_PROP_FRAME_WIDTH  == 3   \* cv2 constant imported at lines 4, 6
CAP_PROP_FRAME_HEIGHT == 4   \* cv2 constant imported at lines 5, 7

\* The keys of pixelformat_2_csc, in dict (insertion) order.
pixelformat_2_csc == << "NV12" >>

\* --------------------------------------------------- the explored inputs
CameraIds == {0, 1}
FourCCs   == {"NV12", "YUYV"}
Modifiers == {0, 1}
PixelFormats == FourCCs \X Modifiers
Sizes     == { <<640, 480>>, <<320, 240>> }
\* CameraConfiguration.Status: Valid = 0, Adjusted = 1, Invalid = 2
Statuses  == {0, 1, 2}

RECURSIVE SeqsUpTo(_, _)
SeqsUpTo(S, n) ==
    IF n = 0 THEN { <<>> }
    ELSE LET shorter == SeqsUpTo(S, n - 1)
         IN  shorter \cup { Append(s, x) : s \in shorter, x \in S }

Range(s) == { s[i] : i \in 1..Len(s) }

None == <<>>

VARIABLES
    \* the system the reader runs on (its inputs)
    cameras,        \* cm.cameras: ids of the cameras present
    formats,        \* stream_config.formats.pixel_formats, driver order
    cfgSize,        \* stream_config.size of the default viewfinder config
    valStatus,      \* the status config.validate() reports
    \* the reader object
    camera_id, width, height, mfbs, camera, stream, started,
    \* the camera as the library calls leave it
    camState,       \* "available" | "acquired" | "configured" | "running" | "stopped"
    acquireCount, validateCount, configureCount,
    buffers,        \* every FrameBuffer an allocator has handed out
    reqBufs,        \* reqBufs[r]: req.buffers of request r (a set of buffers)
    reqState,       \* reqState[r]: "built" | "queued" | "completed" | "drained"
    queued,         \* the requests the camera holds, in queue_request order
    ready,          \* the completed requests cm.get_ready_requests() will return
    eventReady,     \* cm.event_fd is readable
    \* the caller thread
    pc, op, error, ret,
    alloc_bufs, rec_reqs, rec_i,        \* locals of record()
    reqs, req_i, frame_data, timeouts,  \* locals of read()
    recycled,       \* the requests this read() has passed to queue_request
    nRecordUser, nRecordRead            \* record() calls made so far, by caller

envVars    == << cameras, formats, cfgSize, valStatus >>
readerVars == << camera_id, width, height, mfbs, camera, stream, started >>
libVars    == << camState, acquireCount, validateCount, configureCount >>
poolVars   == << buffers, reqBufs, reqState, queued, ready, eventReady >>
recLocals  == << alloc_bufs, rec_reqs, rec_i >>
readLocals == << reqs, req_i, frame_data, timeouts, recycled >>
counters   == << nRecordUser, nRecordRead >>
vars == << envVars, readerVars, libVars, poolVars, pc, op, error, ret,
           recLocals, readLocals, counters >>

\* ------------------------------------------------------------ exceptions
NoDevicesPresent      == << "Exception", 45 >>
DeviceNotFound        == << "Exception", 50 >>
UnsupportedFormat     == << "AssertionError", 78 >>
ConfigurationRejected == << "AssertionError", 89 >>
AllocationFailed      == << "AssertionError", 108 >>
UnsupportedBufferLayout == << "AssertionError", 146 >>
UnmappedBuffer        == << "KeyError", 149 >>
StartedUnset          == << "AttributeError", 166 >>
NoFrameData           == << "TypeError", 201 >>


\* =================================================================== set/get
\* set(prop, setting), lines 27-32: the new value of self.width.
SetWidth(w, prop, setting) ==
    IF prop = CAP_PROP_FRAME_WIDTH THEN setting ELSE w

\* set(prop, setting), lines 27-32: the new value of self.height.
SetHeight(h, prop, setting) ==
    IF prop = CAP_PROP_FRAME_WIDTH THEN h
    ELSE IF prop = CAP_PROP_FRAME_HEIGHT THEN setting ELSE h

\* get(prop) with the two attributes exchanged.
GetSwapped(w, h, prop) ==
    IF prop = CAP_PROP_FRAME_WIDTH THEN << h >>
    ELSE IF prop = CAP_PROP_FRAME_HEIGHT THEN << w >> ELSE None

\* get(prop), lines 34-39; None for any other property.
Get(w, h, prop) ==
    IF prop = CAP_PROP_FRAME_WIDTH THEN << w >>
    ELSE IF prop = CAP_PROP_FRAME_HEIGHT THEN << h >> ELSE None

\* ===================================================================== probe
\* line 74: fmt.fourcc in pixelformat_2_csc.keys()
InTable(fourcc) == \E k \in 1..Len(pixelformat_2_csc) : pixelformat_2_csc[k] = fourcc

\* lines 72-76, the loop from position i on: the first advertised format
\* whose fourcc is a key of the table, None when the list is exhausted.
RECURSIVE PickFrom(_, _)
PickFrom(fmts, i) ==
    IF i > Len(fmts) THEN None
    ELSE IF InTable(fmts[i][1]) THEN fmts[i]
    ELSE PickFrom(fmts, i + 1)

\* The loop without its break: the last supported format wins.
PickFormatNoBreak(fmts) ==
    LET hits == { i \in 1..Len(fmts) : InTable(fmts[i][1]) }
    IN  IF hits = {} THEN None
        ELSE fmts[CHOOSE i \in hits : \A j \in hits : j <= i]

\* lines 72-76: pixel_format after the loop.
PickFormat(fmts) == PickFrom(fmts, 1)

\* line 44 without its test.
NoCamerasUnchecked(cams) == FALSE

\* line 44: not self.cm.cameras
NoCameras(cams) == cams = {}

\* line 47: self.cm.get(self.camera_id)
CmGet(cams, id) == IF id \in cams THEN << "Camera", id >> ELSE << "None" >>

\* line 78 without its test.
PixelFormatUnchecked(pf) == TRUE

\* line 78: assert(pixel_format)
PixelFormatChosen(pf) == pf # None

\* line 89 accepting an adjusted configuration too.
ValidationLenient(status) == status <= 1

\* line 89: assert(ret.value == 0)
ValidationUnchanged(status) == status = 0

\* probe(), lines 41-93, run to its return or to its first exception.
Probe ==
    /\ pc = "new"
    /\ op' = "probe"
    /\ ret' = None
    /\ UNCHANGED << envVars, camera_id, mfbs, started, poolVars,
                    recLocals, readLocals, counters >>
    /\ IF NoCameras(cameras)
       THEN /\ error' = NoDevicesPresent
            /\ pc' = "failed"
            /\ UNCHANGED << width, height, camera, stream, libVars >>
       ELSE
       LET cam == CmGet(cameras, camera_id) IN
       IF cam = << "None" >>
       THEN /\ camera' = cam
            /\ error' = DeviceNotFound
            /\ pc' = "failed"
            /\ UNCHANGED << width, height, stream, libVars >>
       ELSE
       LET pixel_format == PickFormat(formats) IN
       /\ camera' = cam
       /\ acquireCount' = acquireCount + 1
       /\ width'  = SetWidth(width, CAP_PROP_FRAME_WIDTH, cfgSize[1])
       /\ height' = SetHeight(height, CAP_PROP_FRAME_HEIGHT, cfgSize[2])
       /\ IF ~PixelFormatChosen(pixel_format)
          THEN /\ error' = UnsupportedFormat
               /\ pc' = "failed"
               /\ camState' = "acquired"
               /\ UNCHANGED << stream, validateCount, configureCount >>
          ELSE
          /\ validateCount' = validateCount + 1
          /\ IF ~ValidationUnchanged(valStatus)
             THEN /\ error' = ConfigurationRejected
                  /\ pc' = "failed"
                  /\ camState' = "acquired"
                  /\ UNCHANGED << stream, configureCount >>
             ELSE /\ configureCount' = configureCount + 1
                  /\ camState' = "configured"
                  /\ stream' = pixel_format
                  /\ error' = None
                  /\ pc' = "idle"

\* set(prop, setting) called by the user of the reader.
Set ==
    /\ pc = "idle"
    /\ \E prop \in {CAP_PROP_FRAME_WIDTH, CAP_PROP_FRAME_HEIGHT},
          setting \in {cfgSize[1], cfgSize[2]} :
          /\ width'  = SetWidth(width, prop, setting)
          /\ height' = SetHeight(height, prop, setting)
    /\ op' = "set"
    /\ error' = None
    /\ ret' = None
    /\ UNCHANGED << envVars, camera_id, mfbs, camera, stream, started, libVars,
                    poolVars, pc, recLocals, readLocals, counters >>

\* get(prop) called by the user of the reader.
GetProp ==
    /\ pc = "idle"
    /\ \E prop \in {CAP_PROP_FRAME_WIDTH, CAP_PROP_FRAME_HEIGHT} :
          ret' = Get(width, height, prop)
    /\ op' = "get"
    /\ error' = None
    /\ UNCHANGED << envVars, readerVars, libVars, poolVars, pc,
                    recLocals, readLocals, counters >>


\* ==================================================================== record
\* The buffers a new allocator hands out: n buffers no one has seen before.
NewBuffers(n) == [ k \in 1..n |-> Cardinality(buffers) + k ]

\* record() called by the user of the reader.
CallRecord ==
    /\ pc = "idle"
    /\ nRecordUser + nRecordRead < MaxRecords
    /\ nRecordUser' = nRecordUser + 1
    /\ op' = "record"
    /\ pc' = "rec_alloc"
    /\ error' = None
    /\ ret' = None
    /\ UNCHANGED << envVars, readerVars, libVars, poolVars, recLocals,
                    readLocals, nRecordRead >>

\* Where control goes when record() returns or raises: record() is called by
\* the user or by read() (line 167).
AfterRecord(raised) ==
    IF op = "record" \/ raised THEN "idle" ELSE "r_wait"

\* lines 105-112: a new allocator, allocate(), assert ret > 0, num_bufs.
\* The library decides ret; 0 stands for every ret <= 0.
RecordAllocate ==
    /\ pc = "rec_alloc"
    /\ \E n \in 0..MaxBufs :
          IF n = 0
          THEN /\ error' = AllocationFailed
               /\ pc' = AfterRecord(TRUE)
               /\ UNCHANGED << buffers, recLocals >>
          ELSE /\ alloc_bufs' = NewBuffers(n)
               /\ buffers' = buffers \cup Range(NewBuffers(n))
               /\ rec_reqs' = << >>
               /\ rec_i' = 1
               /\ pc' = "rec_build"
               /\ error' = error
    /\ UNCHANGED << envVars, readerVars, libVars, reqBufs, reqState, queued,
                    ready, eventReady, op, ret, readLocals, counters >>

\* line 113 leaving the loop one buffer early.
BuildLoopEndsEarly(i, n) == i >= n - 1

\* line 113: i was the last value of range(num_bufs).
BuildLoopEnds(i, n) == i >= n

\* line 123 assigning a new dict instead of adding a key.
MapBufferAlone(m, buffer) == {buffer}

\* line 123: self.mfbs[buffer] = MappedFrameBuffer(buffer).mmap(); the table
\* is kept as the set of its keys, each with the one region mapped for it.
MapBuffer(m, buffer) == m \cup {buffer}

\* lines 113-123, one iteration: create_request, add_buffer, append, mmap.
RecordBuild ==
    /\ pc = "rec_build"
    /\ LET buffer == alloc_bufs[rec_i]
           req    == Len(reqState) + 1
       IN  /\ reqBufs'  = Append(reqBufs, {buffer})
           /\ reqState' = Append(reqState, "built")
           /\ rec_reqs' = Append(rec_reqs, req)
           /\ mfbs' = MapBuffer(mfbs, buffer)
    /\ rec_i' = rec_i + 1
    /\ pc' = IF BuildLoopEnds(rec_i, Len(alloc_bufs)) THEN "rec_start" ELSE "rec_build"
    /\ UNCHANGED << envVars, camera_id, width, height, camera, stream, started,
                    libVars, buffers, queued, ready, eventReady, op, error,
                    ret, alloc_bufs, readLocals, counters >>

\* line 125: self.camera.start()
RecordStart ==
    /\ pc = "rec_start"
    /\ camState' = "running"
    /\ rec_i' = 1
    /\ pc' = "rec_queue"
    /\ UNCHANGED << envVars, readerVars, acquireCount, validateCount,
                    configureCount, poolVars, op, error, ret, alloc_bufs,
                    rec_reqs, readLocals, counters >>

\* line 127 leaving the loop after its first request.
QueueLoopEndsEarly(i, n) == TRUE

\* line 127: req was the last element of reqs.
QueueLoopEnds(i, n) == i >= n

\* lines 127-128, one iteration: self.camera.queue_request(req)
RecordQueue ==
    /\ pc = "rec_queue"
    /\ reqState' = [reqState EXCEPT ![rec_reqs[rec_i]] = "queued"]
    /\ queued' = Append(queued, rec_reqs[rec_i])
    /\ rec_i' = rec_i + 1
    /\ pc' = IF QueueLoopEnds(rec_i, Len(rec_reqs)) THEN "rec_done" ELSE "rec_queue"
    /\ UNCHANGED << envVars, readerVars, libVars, buffers, reqBufs, ready,
                    eventReady, op, error, ret, alloc_bufs, rec_reqs,
                    readLocals, counters >>

\* line 130: self.started = True, and the return.
RecordDone ==
    /\ pc = "rec_done"
    /\ started' = "True"
    /\ pc' = AfterRecord(FALSE)
    /\ alloc_bufs' = << >>
    /\ rec_reqs' = << >>
    /\ rec_i' = 1
    /\ UNCHANGED << envVars, camera_id, width, height, mfbs, camera, stream,
                    libVars, poolVars, op, error, ret, readLocals, counters >>


\* ====================================================================== read
\* read() or grab() (lines 133-135: grab is read with the result dropped)
\* called by the user of the reader.
CallRead ==
    /\ pc = "idle"
    /\ \E o \in {"read", "grab"} : op' = o
    /\ pc' = "r_check"
    /\ error' = None
    /\ ret' = None
    /\ reqs' = << >>
    /\ req_i' = 1
    /\ frame_data' = 0
    /\ timeouts' = 0
    /\ recycled' = << >>
    /\ UNCHANGED << envVars, readerVars, libVars, poolVars, recLocals, counters >>

\* lines 166-167: if not self.started: self.record().  Reading an attribute
\* that was never assigned raises AttributeError.
ReadCheckStarted ==
    /\ pc = "r_check"
    /\ IF started = "unset"
       THEN /\ error' = StartedUnset
            /\ pc' = "idle"
            /\ UNCHANGED nRecordRead
       ELSE IF started = "False"
       THEN /\ nRecordRead' = nRecordRead + 1
            /\ pc' = "rec_alloc"
            /\ error' = error
       ELSE /\ pc' = "r_wait"
            /\ error' = error
            /\ UNCHANGED nRecordRead
    /\ UNCHANGED << envVars, readerVars, libVars, poolVars, op, ret, recLocals,
                    readLocals, nRecordUser >>

\* lines 177-178 raising to the caller when select() times out.
ReadTimeoutGivesUp ==
    /\ pc = "r_wait"
    /\ ~eventReady
    /\ timeouts < MaxTimeouts
    /\ timeouts' = 0
    /\ error' = << "TimeoutError", 177 >>
    /\ pc' = "idle"
    /\ UNCHANGED << envVars, readerVars, libVars, poolVars, op, ret,
                    recLocals, reqs, req_i, frame_data, recycled, counters >>

\* lines 177-178: sel.select(5) returned no event; wait again.
ReadTimeout ==
    /\ pc = "r_wait"
    /\ ~eventReady
    /\ timeouts < MaxTimeouts
    /\ timeouts' = timeouts + 1
    /\ UNCHANGED << envVars, readerVars, libVars, poolVars, pc, op, error, ret,
                    recLocals, reqs, req_i, frame_data, recycled, counters >>

\* lines 177-188: select() reports the event, get_ready_requests() hands over
\* the completed requests and empties the manager's list.
ReadDrain ==
    /\ pc = "r_wait"
    /\ eventReady
    /\ reqs' = ready
    /\ ready' = << >>
    /\ eventReady' = FALSE
    /\ reqState' = [ r \in DOMAIN reqState |->
                       IF r \in Range(ready) THEN "drained" ELSE reqState[r] ]
    /\ frame_data' = 0
    /\ req_i' = 1
    /\ pc' = IF ready = << >> THEN "r_convert" ELSE "r_loop"
    /\ UNCHANGED << envVars, readerVars, libVars, buffers, reqBufs, queued, op,
                    error, ret, recLocals, timeouts, recycled, counters >>

\* _get_frame_data with the table lookup of line 149 ahead of the assert.
FrameDataErrorLookupFirst(req) ==
    IF ~(reqBufs[req] \subseteq mfbs) THEN UnmappedBuffer
    ELSE IF Cardinality(reqBufs[req]) # 1 THEN UnsupportedBufferLayout
    ELSE None

\* _get_frame_data asserting only that the request has a buffer at all.
FrameDataErrorAtLeastOne(req) ==
    IF Cardinality(reqBufs[req]) = 0 THEN UnsupportedBufferLayout
    ELSE IF ~(reqBufs[req] \subseteq mfbs) THEN UnmappedBuffer
    ELSE None

\* _get_frame_data(req), lines 137-155: the exception it raises, None if none.
FrameDataError(req) ==
    IF Cardinality(reqBufs[req]) # 1 THEN UnsupportedBufferLayout
    ELSE IF ~(reqBufs[req] \subseteq mfbs) THEN UnmappedBuffer
    ELSE None

\* _get_frame_data(req), lines 147-155: the mapped buffer whose plane 0 is
\* returned (a view of the buffer's memory, not a copy).
FrameData(req) == CHOOSE fb \in reqBufs[req] : TRUE

\* lines 190-198 recycling only the request the frame was taken from.
RecyclesOnlyFirst(i) == i > 1

\* lines 197-198 are outside the if: every request of the loop is recycled.
SkipsRecycle(i) == FALSE

\* line 192 taking the frame data of every request of the loop.
NeedsFrameAlways(fd) == TRUE

\* line 192: if frame_data is None.
NeedsFrame(fd) == fd = 0

\* lines 190-198, one iteration: extract from the first request, then
\* req.reuse() and self.camera.queue_request(req).
ReadLoop ==
    /\ pc = "r_loop"
    /\ LET req == reqs[req_i]
           err == IF NeedsFrame(frame_data) THEN FrameDataError(req) ELSE None
       IN  IF err # None
           THEN /\ error' = err
                /\ pc' = "idle"
                /\ reqs' = << >> /\ req_i' = 1 /\ frame_data' = 0
                /\ timeouts' = 0 /\ recycled' = << >>
                /\ UNCHANGED << reqState, queued >>
           ELSE /\ frame_data' = IF NeedsFrame(frame_data) THEN FrameData(req)
                                ELSE frame_data
                /\ IF SkipsRecycle(req_i)
                   THEN UNCHANGED << reqState, queued, recycled >>
                   ELSE /\ reqState' = [reqState EXCEPT ![req] = "queued"]
                        /\ queued' = Append(queued, req)
                        /\ recycled' = Append(recycled, req)
                /\ req_i' = req_i + 1
                /\ pc' = IF req_i >= Len(reqs) THEN "r_convert" ELSE "r_loop"
                /\ error' = error
                /\ UNCHANGED << reqs, timeouts >>
    /\ UNCHANGED << envVars, readerVars, libVars, buffers, reqBufs, ready,
                    eventReady, op, ret, recLocals, counters >>

\* lines 201-226 returning an image also when no frame data was taken.
ReadConvertAnyway ==
    /\ pc = "r_convert"
    /\ error' = error
    /\ ret' = IF op = "grab" THEN None ELSE << 0, frame_data >>
    /\ pc' = "idle"
    /\ reqs' = << >> /\ req_i' = 1 /\ frame_data' = 0
    /\ timeouts' = 0 /\ recycled' = << >>
    /\ UNCHANGED << envVars, readerVars, libVars, poolVars, op, recLocals,
                    counters >>

\* lines 201-226: np.frombuffer wraps the plane without copying, cvtColor
\* reads the buffer's memory, and the frame is returned.
ReadConvert ==
    /\ pc = "r_convert"
    /\ IF frame_data = 0
       THEN /\ error' = NoFrameData
            /\ ret' = None
       ELSE /\ error' = error
            /\ ret' = IF op = "grab" THEN None ELSE << 0, frame_data >>
    /\ pc' = "idle"
    /\ reqs' = << >> /\ req_i' = 1 /\ frame_data' = 0
    /\ timeouts' = 0 /\ recycled' = << >>
    /\ UNCHANGED << envVars, readerVars, libVars, poolVars, op, recLocals,
                    counters >>

\* =================================================================== release
\* release() that also clears the started flag.
ReleaseClearsStarted ==
    /\ pc \in {"idle", "failed"}
    /\ op' = "release"
    /\ ret' = None
    /\ IF camera[1] # "Camera"
       THEN /\ error' = << "AttributeError", 230 >>
            /\ UNCHANGED << mfbs, camState, started >>
       ELSE /\ error' = None
            /\ camState' = "available"
            /\ mfbs' = {}
            /\ started' = "False"
    /\ UNCHANGED << envVars, camera_id, width, height, camera, stream,
                    acquireCount, validateCount, configureCount, poolVars, pc,
                    recLocals, readLocals, counters >>

\* release(), lines 228-233: camera.stop(), camera.release(), self.mfbs = {}.
\* The method can be called on any reader object, also on one whose probe()
\* raised inside __init__; self.camera is then unassigned or None and line
\* 230 raises AttributeError.
Release ==
    /\ pc \in {"idle", "failed"}
    /\ op' = "release"
    /\ ret' = None
    /\ IF camera[1] # "Camera"
       THEN /\ error' = << "AttributeError", 230 >>
            /\ UNCHANGED << mfbs, camState >>
       ELSE /\ error' = None
            /\ camState' = "available"
            /\ mfbs' = {}
    /\ UNCHANGED << envVars, camera_id, width, height, camera, stream, started,
                    acquireCount, validateCount, configureCount, poolVars, pc,
                    recLocals, readLocals, counters >>

\* ================================================================ the camera
\* The running camera completes the request at the head of its queue
\* (libcamera completes requests in the order they were queued): it joins the
\* manager's list of completed requests and the event descriptor is signalled.
DeviceComplete ==
    /\ camState = "running"
    /\ queued # << >>
    /\ reqState' = [reqState EXCEPT ![Head(queued)] = "completed"]
    /\ queued' = Tail(queued)
    /\ ready' = Append(ready, Head(queued))
    /\ eventReady' = TRUE
    /\ UNCHANGED << envVars, readerVars, libVars, buffers, reqBufs, pc, op,
                    error, ret, recLocals, readLocals, counters >>

\* The event descriptor becomes readable although no request is waiting
\* (a spurious wake-up of the selector).
DeviceSpurious ==
    /\ camState = "running"
    /\ ~eventReady
    /\ ready = << >>
    /\ eventReady' = TRUE
    /\ UNCHANGED << envVars, readerVars, libVars, buffers, reqBufs, reqState,
                    queued, ready, pc, op, error, ret, recLocals, readLocals,
                    counters >>

\* ============================================================ specifications
\* __init__, lines 20-24, before probe() is called at line 25.
Constructed(id) ==
    /\ camera_id = id
    /\ height = 0
    /\ width = 0
    /\ mfbs = {}
    /\ camera = << "unset" >>
    /\ stream = None
    /\ started = "unset"
    /\ camState = "available"
    /\ acquireCount = 0 /\ validateCount = 0 /\ configureCount = 0
    /\ buffers = {}
    /\ reqBufs = << >>
    /\ reqState = << >>
    /\ queued = << >>
    /\ ready = << >>
    /\ eventReady = FALSE
    /\ pc = "new"
    /\ op = "init"
    /\ error = None
    /\ ret = None
    /\ alloc_bufs = << >> /\ rec_reqs = << >> /\ rec_i = 1
    /\ reqs = << >> /\ req_i = 1 /\ frame_data = 0 /\ timeouts = 0
    /\ recycled = << >>
    /\ nRecordUser = 0 /\ nRecordRead = 0

\* A reader constructed on a system with one camera that offers a supported
\* format after an unsupported one.
Init ==
    /\ cameras = {0}
    /\ formats = << <<"YUYV", 0>>, <<"NV12", 0>> >>
    /\ cfgSize = << 640, 480 >>
    /\ valStatus = 0
    /\ Constructed(0)

Next ==
    \/ Probe
    \/ CallRecord
    \/ RecordAllocate
    \/ RecordBuild
    \/ RecordStart
    \/ RecordQueue
    \/ RecordDone
    \/ CallRead
    \/ ReadCheckStarted
    \/ ReadTimeout
    \/ ReadDrain
    \/ ReadLoop
    \/ ReadConvert
    \/ Release
    \/ DeviceComplete
    \/ DeviceSpurious

Spec == Init /\ [][Next]_vars

\* A reader constructed on any of the explored systems.
InitProbe ==
    /\ cameras \in SUBSET CameraIds
    /\ formats \in SeqsUpTo(PixelFormats, MaxFormats)
    /\ cfgSize \in Sizes
    /\ valStatus \in Statuses
    /\ \E id \in CameraIds : Constructed(id)

NextProbe ==
    \/ Probe
    \/ Set
    \/ GetProp

SpecProbe == InitProbe /\ [][NextProbe]_vars

\* Construction on any of the explored systems, followed by release().
NextTeardown ==
    \/ Probe
    \/ Release

SpecTeardown == InitProbe /\ [][NextTeardown]_vars

\* The reader's one explicit record() call.
CallRecordOnce ==
    /\ nRecordUser + nRecordRead = 0
    /\ CallRecord

\* The reader with one record() call, run by an interpreter that keeps
\* executing the call in progress, on a camera that keeps completing the
\* requests queued to it and signals the event descriptor only for a
\* completed request.
NextLive ==
    \/ Probe
    \/ CallRecordOnce
    \/ RecordAllocate
    \/ RecordBuild
    \/ RecordStart
    \/ RecordQueue
    \/ RecordDone
    \/ CallRead
    \/ ReadCheckStarted
    \/ ReadTimeout
    \/ ReadDrain
    \/ ReadLoop
    \/ ReadConvert
    \/ Release
    \/ DeviceComplete

SpecLive ==
    /\ Init
    /\ [][NextLive]_vars
    /\ WF_vars(ReadTimeout \/ ReadDrain \/ ReadLoop \/ ReadConvert)
    /\ WF_vars(DeviceComplete)

\* read() at line 190 with any list of requests handed over by
\* get_ready_requests() at line 180.  The camera manager is one per process
\* and reports the completed requests of every camera user in it, so the list
\* is an input of the loop: its requests carry any set of buffers, mapped by
\* this reader or not.
InitExtract ==
    /\ cameras = {0}
    /\ formats = << <<"YUYV", 0>>, <<"NV12", 0>> >>
    /\ cfgSize = << 640, 480 >>
    /\ valStatus = 0
    /\ camera_id = 0
    /\ width = 640 /\ height = 480
    /\ camera = << "Camera", 0 >>
    /\ stream = << "NV12", 0 >>
    /\ started = "True"
    /\ camState = "running"
    /\ acquireCount = 1 /\ validateCount = 1 /\ configureCount = 1
    /\ buffers = 1..MaxBufs
    /\ mfbs \in SUBSET (1..MaxBufs)
    /\ \E n \in 1..MaxBufs :
          /\ reqBufs \in [ 1..n -> SUBSET (1..MaxBufs) ]
          /\ reqState = [ r \in 1..n |-> "drained" ]
          /\ reqs \in { q \in [ 1..n -> 1..n ] :
                          \A i, j \in 1..n : q[i] = q[j] => i = j }
    /\ queued = << >>
    /\ ready = << >>
    /\ eventReady = FALSE
    /\ pc = "r_loop"
    /\ op \in {"read", "grab"}
    /\ error = None
    /\ ret = None
    /\ alloc_bufs = << >> /\ rec_reqs = << >> /\ rec_i = 1
    /\ req_i = 1 /\ frame_data = 0 /\ timeouts = 0
    /\ recycled = << >>
    /\ nRecordUser = 1 /\ nRecordRead = 0

NextExtract ==
    \/ ReadLoop
    \/ ReadConvert

SpecExtract == InitExtract /\ [][NextExtract]_vars


\* ==================================================================== claims
Requests == DOMAIN reqState

\* The caller is inside record().
InRecord == pc \in {"rec_alloc", "rec_build", "rec_start", "rec_queue", "rec_done"}

\* The caller is between two read() cycles or about to wait in one.
BeforeWait == pc \in {"idle", "r_check", "r_wait"}

\* Every buffer an allocator handed out still has its entry in self.mfbs:
\* no release() has emptied the table since buffers were allocated.
PoolMapped == buffers \subseteq mfbs

\* Requests handed over by get_ready_requests() and not queued again.
Drained == { r \in Requests : reqState[r] = "drained" }

\* Requests queued to the camera, completed and waiting in the manager's
\* list, or in the hands of the recycling loop of the running read().
InCirculation ==
    { r \in Requests :
        \/ reqState[r] \in {"queued", "completed"}
        \/ reqState[r] = "drained" /\ pc = "r_loop" /\ r \in Range(reqs) }

\* The formats of the table, as a set: no order of the table enters.
Supported == { f \in FourCCs : \E k \in DOMAIN pixelformat_2_csc : pixelformat_2_csc[k] = f }

BuffersBoundOnce ==
    \A b \in buffers : Cardinality({ r \in Requests : b \in reqBufs[r] }) = 1

\* C2 as stated: once record() has completed, every allocated buffer is bound
\* to exactly one request and the requests in circulation are as many as the
\* buffers of the pool, whatever read() calls follow.
C2_CirculationEqualsPool ==
    (started = "True" /\ ~InRecord) =>
        /\ BuffersBoundOnce
        /\ Cardinality(InCirculation) = Cardinality(buffers)

\* C2 amended: once record() has completed and while the stream is up (every
\* allocated buffer still in the mapping table, no release() yet), every
\* allocated buffer is bound to exactly one request and the requests in
\* circulation are as many as the buffers of the pool, after any number of
\* read() calls.
C2_CirculationEqualsPoolWhileStreaming ==
    (started = "True" /\ ~InRecord /\ PoolMapped) =>
        /\ BuffersBoundOnce
        /\ Cardinality(InCirculation) = Cardinality(buffers)

\* A read() has returned a frame from a pool of at least two buffers.
C2_Witness ==
    /\ started = "True"
    /\ PoolMapped
    /\ pc = "idle"
    /\ op = "read"
    /\ ret # None
    /\ Cardinality(buffers) >= 2
    /\ Cardinality(InCirculation) = Cardinality(buffers)

\* ------------------------------------------------------------------------ C3
\* C3: when read() reads the bytes of the extracted plane (lines 201-219), the
\* request the plane belongs to has not been recycled yet.
C3_NoAccessAfterRecycle ==
    (pc = "r_convert" /\ frame_data # 0) =>
        \A r \in Range(reqs) : frame_data \in reqBufs[r] => r \notin Range(recycled)

\* ------------------------------------------------------------------------ C4
\* C4: on a reader whose record() the caller never called, a read() that is
\* past its started check has run record() exactly once.
C4_FirstReadStartsStreaming ==
    (op \in {"read", "grab"} /\ pc # "r_check" /\ nRecordUser = 0) => nRecordRead = 1

\* ------------------------------------------------------------------------ C5
\* C5: a record() entered while the stream of an earlier record() is running
\* (no release() in between) is rejected or allocates no buffer, maps no
\* region and creates no request.
C5_NoDoubleAllocation ==
    [][ (pc \in {"rec_alloc", "rec_build"} /\ started = "True" /\ camState = "running")
        => /\ buffers' = buffers
           /\ mfbs' = mfbs
           /\ Len(reqState') = Len(reqState) ]_vars

C7_FirstSupportedFormat ==
    configureCount >= 1 =>
        \E i \in 1..Len(formats) :
            /\ stream = formats[i]
            /\ formats[i][1] \in Supported
            /\ \A j \in 1..(i - 1) : formats[j][1] \notin Supported

\* The second advertised format was selected after an unsupported first one.
C7_Witness ==
    /\ pc = "idle"
    /\ Len(formats) = 2
    /\ formats[1][1] \notin Supported
    /\ stream = formats[2]

\* ------------------------------------------------------------------------ C8
\* C8: when the camera was found and none of the advertised formats is in the
\* table (the list may be empty), probe() has failed at the assertion of line
\* 78, before validate() and configure(): neither was called and no stream
\* was recorded.
C8_UnsupportedFormatFailsEarly ==
    (pc # "new" /\ camera_id \in cameras
       /\ \A i \in 1..Len(formats) : formats[i][1] \notin Supported) =>
        /\ pc = "failed"
        /\ error = UnsupportedFormat
        /\ validateCount = 0
        /\ configureCount = 0
        /\ stream = None
        /\ camState # "configured"

\* probe() has failed on a non-empty list of unsupported formats.
C8_Witness ==
    /\ pc = "failed"
    /\ error = UnsupportedFormat
    /\ Len(formats) >= 1
    /\ validateCount = 0

\* ------------------------------------------------------------------------ C9
\* C9: when validate() was called and reported a status other than 0, probe()
\* has failed at the assertion of line 89 and configure() was never called;
\* configure() is called only after validate() reported 0.
C9_RejectedConfigurationNotApplied ==
    /\ (validateCount >= 1 /\ valStatus # 0) =>
          /\ pc = "failed"
          /\ error = ConfigurationRejected
          /\ configureCount = 0
          /\ stream = None
          /\ camState # "configured"
    /\ configureCount >= 1 => (validateCount = 1 /\ valStatus = 0)

\* probe() has failed on an adjusted configuration.
C9_Witness ==
    /\ pc = "failed"
    /\ error = ConfigurationRejected
    /\ valStatus = 1
    /\ validateCount = 1

\* ----------------------------------------------------------------------- C10
\* C10: after probe(), with no camera on the system the error is the one of
\* line 45, with cameras but none of the requested id the one of line 50, in
\* both cases acquire() was never called; when the camera was found acquire()
\* was called exactly once.
C10_AcquisitionErrors ==
    pc # "new" =>
        /\ cameras = {} =>
              /\ error = NoDevicesPresent
              /\ acquireCount = 0
              /\ camState = "available"
        /\ (cameras # {} /\ camera_id \notin cameras) =>
              /\ error = DeviceNotFound
              /\ acquireCount = 0
              /\ camState = "available"
        /\ camera_id \in cameras =>
              /\ acquireCount = 1
              /\ camera = << "Camera", camera_id >>
              /\ error \notin {NoDevicesPresent, DeviceNotFound}

\* probe() has failed for an id that none of the present cameras has.
C10_Witness ==
    /\ pc = "failed"
    /\ cameras # {}
    /\ camera_id \notin cameras
    /\ error = DeviceNotFound
    /\ acquireCount = 0


\* ----------------------------------------------------------------------- C11
\* C11: the mapping table holds regions of allocated buffers only; once the
\* loop of record() is done every buffer of this allocation has its one
\* region, and inside the loop exactly the buffers handled so far have; after
\* the reader's first record() (the table was empty) and until release() the
\* table holds exactly the allocated buffers, as many regions as buffers;
\* after release() the table is empty.
C11_OneRegionPerBuffer ==
    /\ mfbs \subseteq buffers
    /\ pc = "rec_build" =>
          mfbs \cap Range(alloc_bufs) = { alloc_bufs[k] : k \in 1..(rec_i - 1) }
    /\ pc \in {"rec_start", "rec_queue", "rec_done"} =>
          /\ Range(alloc_bufs) \subseteq mfbs
          /\ Cardinality(Range(alloc_bufs)) = Len(alloc_bufs)
    /\ (started = "True" /\ ~InRecord /\ nRecordUser + nRecordRead = 1 /\ mfbs # {}) =>
          /\ mfbs = buffers
          /\ Cardinality(mfbs) = Cardinality(buffers)
    /\ (pc = "idle" /\ op = "release" /\ error = None) => mfbs = {}

\* release() has emptied a table that held two regions.
C11_Witness ==
    /\ pc = "idle"
    /\ op = "release"
    /\ started = "True"
    /\ Cardinality(buffers) >= 2
    /\ mfbs = {}


\* ----------------------------------------------------------------------- C12
\* C12: whenever release() was the last call, it raised nothing and left the
\* camera stopped and unlocked and the mapping table empty.
C12_ReleaseAlwaysSafe ==
    op = "release" =>
        /\ error = None
        /\ camState = "available"
        /\ mfbs = {}


\* ----------------------------------------------------------------------- C13
\* C13: when read() extracts from a request whose number of buffers is not 1,
\* the step raises UnsupportedBufferLayout (the AssertionError of line 146,
\* also when the buffers are not in the mapping table, so the table was not
\* consulted), no frame data is taken and nothing is returned.
C13_BadLayoutFailsWithoutLookup ==
    [][ (pc = "r_loop" /\ frame_data = 0
            /\ Cardinality(reqBufs[reqs[req_i]]) # 1)
        => /\ error' = UnsupportedBufferLayout
           /\ pc' = "idle"
           /\ frame_data' = 0
           /\ ret' = None ]_vars

\* read() raised UnsupportedBufferLayout on requests that carry two buffers
\* each, none of them in the mapping table.
C13_Witness ==
    /\ pc = "idle"
    /\ error = UnsupportedBufferLayout
    /\ Requests # {}
    /\ \A r \in Requests :
          /\ Cardinality(reqBufs[r]) = 2
          /\ reqBufs[r] \cap mfbs = {}


\* ----------------------------------------------------------------------- C19
\* C19: when the first request of the drained list does not carry exactly one
\* buffer, the step ends read() with an exception and recycles nothing: the
\* device's queue is as it was and every request of the list, the first and
\* the ones after it, is still drained.
C19_FailedExtractionRecyclesNothing ==
    [][ (pc = "r_loop" /\ req_i = 1
            /\ Cardinality(reqBufs[reqs[1]]) # 1)
        => /\ pc' = "idle"
           /\ error' # None
           /\ queued' = queued
           /\ \A k \in 1..Len(reqs) : reqState'[reqs[k]] = "drained" ]_vars

\* read() was aborted on a list of two drained requests, mapped buffers
\* included, and the device's queue is empty.
C19_Witness ==
    /\ pc = "idle"
    /\ error = UnsupportedBufferLayout
    /\ Cardinality(Drained) >= 2
    /\ \E r \in Drained : Cardinality(reqBufs[r]) = 2 /\ reqBufs[r] \subseteq mfbs
    /\ queued = << >>


\* ----------------------------------------------------------------------- C14
\* C14: in one read() call, a timed-out wait changes nothing but the count of
\* timeouts (no request is drained, extracted from or recycled); the list of
\* completed requests is taken once, from the wait, and the call does not
\* wait again after it; frame data is taken in the first iteration of the
\* loop only, from the first drained request, and keeps that value through
\* the later iterations; with the reader's buffers mapped the first iteration
\* does take it.  (The camera's own steps interleave with the reader's.)
C14_OneDrainOneExtraction ==
    [][ /\ (pc = "r_wait" /\ timeouts' # timeouts /\ pc' = "r_wait")
            => UNCHANGED << poolVars, reqs, req_i, frame_data, recycled, mfbs,
                            error, ret >>
        /\ (reqs' # reqs /\ reqs' # << >>)
            => (pc = "r_wait" /\ eventReady /\ reqs = << >> /\ reqs' = ready)
        /\ (pc \in {"r_loop", "r_convert"})
            => pc' \in {"r_loop", "r_convert", "idle"}
        /\ (frame_data' # frame_data /\ frame_data' # 0)
            => /\ pc = "r_loop"
               /\ req_i = 1
               /\ frame_data = 0
               /\ frame_data' \in reqBufs[reqs[1]]
        /\ (pc = "r_loop" /\ req_i > 1)
            => /\ frame_data \in reqBufs[reqs[1]]
               /\ pc' = "r_loop" => frame_data' = frame_data
               /\ pc' = "r_convert" => frame_data' = frame_data
        /\ (pc = "r_loop" /\ req_i = 1 /\ PoolMapped
                /\ (pc' # pc \/ req_i' # req_i))
            => (frame_data' \in reqBufs[reqs[1]] /\ error' = None)
      ]_vars

\* A read() that timed out once, then drained two requests, has been through
\* its loop and holds the data of the first of them.
C14_Witness ==
    /\ pc = "r_convert"
    /\ timeouts >= 1
    /\ Len(reqs) >= 2
    /\ frame_data \in reqBufs[reqs[1]]
    /\ frame_data \notin reqBufs[reqs[2]]


\* ----------------------------------------------------------------------- C15
\* C15: a timed-out wait of read() raises nothing and leaves read() waiting;
\* read() leaves the wait only when the event descriptor is signalled, so it
\* never returns while the camera stays silent; and a read() that waits on a
\* running camera with the reader's buffers mapped eventually returns a
\* frame, given that the camera keeps completing queued requests.
C15_TimeoutRetriesUntilReady ==
    /\ [][ /\ (pc = "r_wait" /\ timeouts' # timeouts)
               => (pc' = "r_wait" /\ error' = None /\ ret' = None)
           /\ (pc = "r_wait" /\ pc' # "r_wait") => eventReady
         ]_vars
    /\ (pc = "r_wait" /\ op = "read" /\ camState = "running" /\ PoolMapped)
          ~> (pc = "idle" /\ op = "read" /\ error = None /\ ret # None)

\* A read() that timed out has been woken by a completed request and is in
\* its loop, no exception raised.
C15_Witness ==
    /\ pc = "r_loop"
    /\ op = "read"
    /\ timeouts >= 1
    /\ error = None
    /\ camState = "running"
    /\ PoolMapped


\* ----------------------------------------------------------------------- C16
\* C16: when probe() has succeeded, get(CAP_PROP_FRAME_WIDTH) and
\* get(CAP_PROP_FRAME_HEIGHT) give the width and the height of the driver's
\* default viewfinder configuration, whichever format of the list was
\* selected, and a get() called next returns one of the two.
C16_GetReturnsSuggestedSize ==
    /\ [] ( (op = "probe" /\ pc = "idle") =>
              /\ Get(width, height, CAP_PROP_FRAME_WIDTH) = << cfgSize[1] >>
              /\ Get(width, height, CAP_PROP_FRAME_HEIGHT) = << cfgSize[2] >>
              /\ \E k \in 1..Len(formats) : stream = formats[k] )
    /\ [][ (op = "probe" /\ pc = "idle" /\ op' = "get")
             => ret' \in { << cfgSize[1] >>, << cfgSize[2] >> } ]_vars

\* Formats {A, B} with only B supported and a suggested size of 640x480:
\* B is selected and get() has returned 640, the size still as probed.
C16_Witness ==
    /\ op = "get"
    /\ Len(formats) = 2
    /\ ~InTable(formats[1][1])
    /\ InTable(formats[2][1])
    /\ stream = formats[2]
    /\ cfgSize = << 640, 480 >>
    /\ width = 640 /\ height = 480
    /\ ret = << 640 >>


\* ----------------------------------------------------------------------- C17
\* C17: once probe() has succeeded, no call changes the width, the height or
\* the pixel format the reader uses for the stream.
C17_DescriptorImmutable ==
    [][ pc = "idle" =>
          /\ width' = width
          /\ height' = height
          /\ stream' = stream ]_vars


\* ----------------------------------------------------------------------- C18
\* C18: when read() is woken and the manager's list of completed requests is
\* empty, the drain hands over no request, takes no frame data, recycles
\* nothing and changes no request's state; read() then ends with an exception
\* (np.frombuffer(None) at line 201) and returns nothing, the requests and
\* the camera's queue still as they were.
C18_EmptyWakeUpEndsInError ==
    [][ /\ (pc = "r_wait" /\ eventReady /\ ready = << >> /\ pc' # "r_wait")
            => /\ pc' = "r_convert"
               /\ reqs' = << >>
               /\ frame_data' = 0
               /\ recycled' = << >>
               /\ UNCHANGED << reqState, queued, error, ret >>
        /\ (pc = "r_convert" /\ reqs = << >> /\ pc' = "idle")
            => /\ error' = NoFrameData
               /\ ret' = None
               /\ UNCHANGED << reqState, queued, ready, mfbs >>
      ]_vars

\* read() has ended with the exception of line 201 while every request of the
\* reader is with the camera.
C18_Witness ==
    /\ pc = "idle"
    /\ op = "read"
    /\ error = NoFrameData
    /\ Requests # {}
    /\ \A r \in Requests : reqState[r] = "queued"


\* ----------------------------------------------------------------------- C20
\* C20: self.started is assigned at the end of record() only, the value True,
\* and no step takes it away; release() leaves it set and empties the mapping
\* table; read() never enters record() once the flag is set; and while the
\* flag is set and the table is empty, the extraction step of read() raises
\* KeyError and takes no frame data, and read() returns no frame.
C20_StartedNeverCleared ==
    [][ /\ started' # started => (pc = "rec_done" /\ started' = "True")
        /\ (op' = "release" /\ error' = None /\ pc' = pc /\ started = "True")
            => (started' = "True" /\ mfbs' = {})
        /\ (pc = "r_check" /\ started = "True") => pc' \in {"r_check", "r_wait"}
        /\ nRecordRead' = nRecordRead
        /\ (started = "True" /\ mfbs = {}) =>
              /\ frame_data = 0
              /\ frame_data' = 0
              /\ (pc = "r_loop" /\ pc' # "r_loop")
                    => (pc' = "idle" /\ error' = UnmappedBuffer /\ ret' = None)
              /\ (pc = "r_convert" /\ pc' = "idle") => ret' = None
              /\ (mfbs' # {}) => pc = "rec_build"
      ]_vars

\* After release() a read() was woken by a completed request and ended with
\* the KeyError of line 149, record() not having been run by it.
C20_Witness ==
    /\ pc = "idle"
    /\ op = "read"
    /\ error = UnmappedBuffer
    /\ started = "True"
    /\ mfbs = {}
    /\ nRecordRead = 0
    /\ camState = "available"

====
